---------------------------- MODULE Spec2Model ----------------------------
(***************************************************************************)
(* Satellite threat engine (python_backend/threat_analyzer.py) and its     *)
(* HTTP/WebSocket boundary (python_backend/threat_api.py).                 *)
(*                                                                         *)
(* Units.  Latitude and longitude are in tenths of a degree, altitude and  *)
(* distances in km, speed in tenths of a km/s, time in ticks               *)
(* (TicksPerSecond ticks to the second).  Floating point is modelled by    *)
(* exact integer arithmetic where the comparison can be cross-multiplied   *)
(* (the velocity threshold) and by fixed point elsewhere (the Cartesian    *)
(* projection is truncated to whole km, the standardized DBSCAN distance   *)
(* to FracBits binary digits).  The inputs of the model are chosen away    *)
(* from the thresholds, so the truncation does not decide any comparison.  *)
(***************************************************************************)
EXTENDS Integers, Sequences, FiniteSets, TLC

VARIABLES
    satellite_positions,  \* ThreatAnalyzer.satellite_positions: the dict, as
                          \* the sequence of its items in insertion order
    threat_events,        \* ThreatAnalyzer.threat_events
    active_connections,   \* ConnectionManager.active_connections
    ws_state,             \* per WebSocket: where its endpoint coroutine is
    peer_closed,          \* WebSockets whose client has gone: a send raises
    tasks,                \* coroutines suspended inside manager.broadcast
    now,                  \* the wall clock, in ticks
    result,               \* the last operation and what it returned
    recorded,             \* history: every sample recorded, per satellite
    appended,             \* history: every event appended
    broadcasts,           \* history: the last broadcast call that returned
    posts,                \* number of position submissions so far
    sims                  \* number of simulated events so far

vars == <<satellite_positions, threat_events, active_connections, ws_state,
          peer_closed, tasks, now, result, recorded, appended, broadcasts,
          posts, sims>>

store == <<satellite_positions, threat_events>>

-----------------------------------------------------------------------------
(* Program constants *)

MaxPositions == 100
MaxThreatEvents == 1000
MinHistory == 10
WindowSize == 50
MinVelocitySamples == 5
MinTrajectorySamples == 10
SigmaFactor == 2
TrajMinSamples == 3
ProximityKm == 100
EarthRadiusKm == 6371
ZoneWindow == 100
ZoneMinEvents == 3
ZoneEpsDegrees == 5
ZoneMinSamples == 3
ZoneRadiusKm == 500
CommRangeKm == 2000
ExcellentKm == 500
GoodKm == 1000
DefaultHours == 24
SleepMinSeconds == 10
SleepMaxSeconds == 60

(* Resolution of the fixed-point arithmetic *)
TrigScale == 10000
FracBits == 16
DeciDegree == 10
TicksPerSecond == 2

SecondsPerHour == 3600

-----------------------------------------------------------------------------
(* Sequences *)

Range(s) == {s[i] : i \in DOMAIN s}

\* s[-k:] of Python: the last k elements (all of s when it is shorter)
LastN(s, k) == IF Len(s) <= k THEN s ELSE SubSeq(s, Len(s) - k + 1, Len(s))

RECURSIVE Concat(_)
Concat(ss) == IF ss = <<>> THEN <<>> ELSE Head(ss) \o Concat(Tail(ss))

\* s[1] + ... + s[n]
RECURSIVE SumTo(_, _)
SumTo(s, n) == IF n = 0 THEN 0 ELSE s[n] + SumTo(s, n - 1)

SumOf(s) == SumTo(s, Len(s))

\* list.remove(x): the first occurrence is dropped
RECURSIVE RemoveFirst(_, _)
RemoveFirst(s, x) ==
    IF s = <<>> THEN <<>>
    ELSE IF Head(s) = x THEN Tail(s)
    ELSE <<Head(s)>> \o RemoveFirst(Tail(s), x)

-----------------------------------------------------------------------------
(* The dict satellite_positions *)

Keys(d) == {d[i].sat_id : i \in DOMAIN d}

KeyIndex(d, k) == CHOOSE i \in DOMAIN d : d[i].sat_id = k

Lookup(d, k) == d[KeyIndex(d, k)].history

\* d[k] = h: a new key goes last, an old key keeps its place
Put(d, k, h) ==
    IF k \in Keys(d)
    THEN [d EXCEPT ![KeyIndex(d, k)].history = h]
    ELSE Append(d, [sat_id |-> k, history |-> h])

HistoryOf(d, k) == IF k \in Keys(d) THEN Lookup(d, k) ELSE <<>>

-----------------------------------------------------------------------------
(* 3D distance *)

\* np.cos and np.sin of an angle given in tenths of a degree, times TrigScale
CosE4(a) ==
    CASE a = 0 -> 10000
      [] a = 5 -> 10000
      [] a = 60 -> 9945
      [] a = 120 -> 9781
      [] a = 200 -> 9397

SinE4(a) ==
    CASE a = 0 -> 0
      [] a = 5 -> 87
      [] a = 60 -> 1045
      [] a = 120 -> 2079
      [] a = 200 -> 3420

\* floor of the square root, by bisection: lo*lo <= n < hi*hi
RECURSIVE ISqrtBetween(_, _, _)
ISqrtBetween(n, lo, hi) ==
    IF hi - lo <= 1 THEN lo
    ELSE LET mid == (lo + hi) \div 2
         IN  IF mid * mid <= n THEN ISqrtBetween(n, mid, hi)
             ELSE ISqrtBetween(n, lo, mid)

ISqrt(n) == ISqrtBetween(n, 0, 32768)

Cartesian(pos) ==
    LET r == EarthRadiusKm + pos.altitude
        rc == (r * CosE4(pos.latitude)) \div TrigScale
    IN  [x |-> (rc * CosE4(pos.longitude)) \div TrigScale,
         y |-> (rc * SinE4(pos.longitude)) \div TrigScale,
         z |-> (r * SinE4(pos.latitude)) \div TrigScale]

calculate_3d_distance(pos1, pos2) ==
    LET c1 == Cartesian(pos1)
        c2 == Cartesian(pos2)
    IN  ISqrt((c2.x - c1.x) * (c2.x - c1.x) + (c2.y - c1.y) * (c2.y - c1.y)
              + (c2.z - c1.z) * (c2.z - c1.z))

-----------------------------------------------------------------------------
(* Events *)

\* int(t.timestamp()): whole seconds
EpochSeconds(t) == t \div TicksPerSecond

ThreatEvent(id, pos, target, kind, severity, sat_id, description) ==
    [id |-> id, timestamp |-> pos.timestamp,
     source_lat |-> pos.latitude, source_lon |-> pos.longitude,
     target_lat |-> target.latitude, target_lon |-> target.longitude,
     threat_type |-> kind, severity |-> severity, satellite_id |-> sat_id,
     description |-> description]

-----------------------------------------------------------------------------
(* DBSCAN.fit_predict over the points 1..n, Near(i, j) being "within eps":  *)
(* the label of every point, -1 for noise.  Clusters are numbered from 0 in *)
(* the order of their first core point; a border point keeps the label of   *)
(* the first cluster that reaches it.                                       *)

RECURSIVE Reach(_, _, _)
Reach(members, neigh, core) ==
    LET more == members \cup UNION {neigh[c] : c \in members \cap core}
    IN  IF more = members THEN members ELSE Reach(more, neigh, core)

RECURSIVE DbscanFrom(_, _, _, _, _, _)
DbscanFrom(i, n, neigh, core, labels, next) ==
    IF i > n THEN labels
    ELSE IF labels[i] # -1 \/ i \notin core
    THEN DbscanFrom(i + 1, n, neigh, core, labels, next)
    ELSE LET members == Reach({i}, neigh, core)
         IN  DbscanFrom(i + 1, n, neigh, core,
                        [j \in 1..n |-> IF j \in members /\ labels[j] = -1
                                        THEN next ELSE labels[j]],
                        next + 1)

\* neigh[i]: the points within eps of point i (i among them)
Dbscan(neigh, min_samples) ==
    LET n == Len(neigh)
        core == {i \in 1..n : Cardinality(neigh[i]) >= min_samples}
    IN  DbscanFrom(1, n, neigh, core, [i \in 1..n |-> -1], 0)

-----------------------------------------------------------------------------
(* Velocity detector *)

\* df['vel'].diff() at row i >= 2 (row 1 is NaN)
VelChange(df, i) == df[i].velocity - df[i - 1].velocity

\* A detector that flags only the rises in speed
VelocityRiseRows(df) ==
    LET n == Len(df)
        m == n - 1
        change == [j \in 1..m |-> VelChange(df, j + 1)]
        total == SumOf(change)
        dev == [j \in 2..n |-> m * change[j - 1] - total]
        ss == SumOf([j \in 1..m |-> dev[j + 1] * dev[j + 1]])
    IN  {i \in 2..n :
            /\ dev[i] > 0
            /\ dev[i] * dev[i] * (m - 1) > SigmaFactor * SigmaFactor * ss}

\* Row i is an anomaly: |change - mean| > 2 * std, std the sample standard
\* deviation (pandas, ddof = 1) of the m = n - 1 changes.  With
\* dev(j) = m * change(j) - sum, this is dev(i)^2 * (m-1) > 4 * sum dev(j)^2.
\* Row 1 (NaN) never compares greater.
VelocityAnomalyRows(df) ==
    LET n == Len(df)
        m == n - 1
        change == [j \in 1..m |-> VelChange(df, j + 1)]
        total == SumOf(change)
        dev == [j \in 2..n |-> m * change[j - 1] - total]
        ss == SumOf([j \in 1..m |-> dev[j + 1] * dev[j + 1]])
    IN  {i \in 2..n :
            dev[i] * dev[i] * (m - 1) > SigmaFactor * SigmaFactor * ss}

detect_velocity_anomalies(df, sat_id) ==
    IF Len(df) < MinVelocitySamples THEN <<>>
    ELSE LET rows == VelocityAnomalyRows(df)
             Event(i) ==
                 ThreatEvent(<<"VEL_ANOMALY", sat_id, EpochSeconds(df[i].timestamp)>>,
                             df[i], df[i], "VELOCITY_ANOMALY", "MEDIUM", sat_id,
                             <<"Unusual velocity change detected", VelChange(df, i)>>)
         IN  Concat([i \in 1..Len(df) |->
                        IF i \in rows THEN <<Event(i)>> ELSE <<>>])

-----------------------------------------------------------------------------
(* Trajectory detector *)

\* floor(r * 2^k / b) for 0 <= r < b, one binary digit at a time
RECURSIVE FracDigits(_, _, _)
FracDigits(r, b, k) ==
    IF k = 0 THEN 0
    ELSE IF 2 * r >= b THEN 2 ^ (k - 1) + FracDigits(2 * r - b, b, k - 1)
    ELSE FracDigits(2 * r, b, k - 1)

\* floor(a * 2^FracBits / b)
FixDiv(a, b) == (a \div b) * 2 ^ FracBits + FracDigits(a % b, b, FracBits)

Feature(pos, k) ==
    CASE k = 1 -> pos.latitude
      [] k = 2 -> pos.longitude
      [] k = 3 -> pos.altitude

\* n^2 times the (population) variance of feature k over the window
ScaledVariance(df, k) ==
    LET n == Len(df)
        s1 == SumOf([i \in 1..n |-> Feature(df[i], k)])
        s2 == SumOf([i \in 1..n |-> Feature(df[i], k) * Feature(df[i], k)])
    IN  n * s2 - s1 * s1

\* Squared distance of rows i and j after StandardScaler (a feature of zero
\* variance is left unscaled), times 2^FracBits
StandardizedDistance2(df, var, i, j) ==
    LET n == Len(df)
        Term(k) ==
            LET dx == Feature(df[i], k) - Feature(df[j], k)
            IN  IF var[k] = 0 THEN dx * dx * 2 ^ FracBits
                ELSE FixDiv(dx * dx * n * n, var[k])
    IN  Term(1) + Term(2) + Term(3)

\* DBSCAN(eps=0.5, min_samples=3) on the standardized features: eps^2 = 1/4
TrajectoryLabels(df) ==
    LET var == <<ScaledVariance(df, 1), ScaledVariance(df, 2),
                 ScaledVariance(df, 3)>>
        Near(i, j) == StandardizedDistance2(df, var, i, j) <= 2 ^ (FracBits - 2)
        neigh == [i \in 1..Len(df) |-> {j \in 1..Len(df) : Near(i, j)}]
    IN  Dbscan(SubSeq(neigh, 1, Len(df)), TrajMinSamples)

\* A detector that clusters however few samples it is given
detect_trajectory_anomalies_unguarded(df, sat_id) ==
    LET clusters == TrajectoryLabels(df)
        Event(i) ==
            ThreatEvent(<<"TRAJ_ANOMALY", sat_id, EpochSeconds(df[i].timestamp)>>,
                        df[i], df[i], "TRAJECTORY_ANOMALY", "HIGH", sat_id,
                        <<"Anomalous trajectory detected at position",
                          df[i].latitude, df[i].longitude>>)
    IN  Concat([i \in 1..Len(df) |->
                   IF clusters[i] = -1 THEN <<Event(i)>> ELSE <<>>])

detect_trajectory_anomalies(df, sat_id) ==
    IF Len(df) < MinTrajectorySamples THEN <<>>
    ELSE LET clusters == TrajectoryLabels(df)
             Event(i) ==
                 ThreatEvent(<<"TRAJ_ANOMALY", sat_id, EpochSeconds(df[i].timestamp)>>,
                             df[i], df[i], "TRAJECTORY_ANOMALY", "HIGH", sat_id,
                             <<"Anomalous trajectory detected at position",
                               df[i].latitude, df[i].longitude>>)
         IN  Concat([i \in 1..Len(df) |->
                        IF clusters[i] = -1 THEN <<Event(i)>> ELSE <<>>])

-----------------------------------------------------------------------------
(* Proximity detector *)

detect_proximity_threats(positions, sat_id, current_pos) ==
    LET Event(other) ==
            LET other_pos == other.history[Len(other.history)]
                distance == calculate_3d_distance(current_pos, other_pos)
            IN  IF distance < ProximityKm
                THEN <<ThreatEvent(<<"PROXIMITY_THREAT", sat_id, other.sat_id,
                                     EpochSeconds(current_pos.timestamp)>>,
                                   current_pos, other_pos, "PROXIMITY_THREAT",
                                   "CRITICAL", sat_id,
                                   <<"Collision risk with satellite",
                                     other.sat_id, distance>>)>>
                ELSE <<>>
    IN  Concat([i \in 1..Len(positions) |->
                   IF positions[i].sat_id = sat_id \/ positions[i].history = <<>>
                   THEN <<>> ELSE Event(positions[i])])

-----------------------------------------------------------------------------
(* Orchestrator *)

\* The events analyze returns for one item of the dict
AnalyzeItem(positions, item) ==
    IF Len(item.history) < MinHistory THEN <<>>
    ELSE LET df == LastN(item.history, WindowSize)
         IN  detect_velocity_anomalies(df, item.sat_id)
             \o detect_trajectory_anomalies(df, item.sat_id)
             \o detect_proximity_threats(positions, item.sat_id,
                                         item.history[Len(item.history)])

\* analyze_satellite_anomalies(positions) on the Store sat_positions: the
\* argument is not read
analyze_satellite_anomalies(sat_positions, positions) ==
    Concat([i \in 1..Len(sat_positions) |->
               AnalyzeItem(sat_positions, sat_positions[i])])

-----------------------------------------------------------------------------
(* Zone aggregator *)

SeverityScore(sev) ==
    CASE sev = "LOW" -> 1
      [] sev = "MEDIUM" -> 2
      [] sev = "HIGH" -> 3
      [] sev = "CRITICAL" -> 4

\* the threat kinds in the order pandas sorts them (mode() returns the modes
\* sorted, and iloc[0] takes the first)
KindsSorted ==
    <<"COMMUNICATION_LOSS", "DEBRIS_FIELD", "PROXIMITY_THREAT",
      "TRAJECTORY_ANOMALY", "VELOCITY_ANOMALY">>

\* avg < 1.5, < 2.5, < 3.5 with avg = total / count
ZoneSeverity(total, count) ==
    IF 2 * total < 3 * count THEN "LOW"
    ELSE IF 2 * total < 5 * count THEN "MEDIUM"
    ELSE IF 2 * total < 7 * count THEN "HIGH"
    ELSE "CRITICAL"

DominantThreat(threat_df, members) ==
    LET Count(kind) == Cardinality({i \in members : threat_df[i].threat_type = kind})
        best == CHOOSE k \in 1..Len(KindsSorted) :
                    /\ \A j \in 1..Len(KindsSorted) :
                           Count(KindsSorted[j]) <= Count(KindsSorted[k])
                    /\ \A j \in 1..(k - 1) :
                           Count(KindsSorted[j]) < Count(KindsSorted[k])
    IN  KindsSorted[best]

generate_threat_zones(events) ==
    LET threat_df == LastN(events, ZoneWindow)
        n == Len(threat_df)
        eps == ZoneEpsDegrees * DeciDegree
        Near(i, j) ==
            LET dlat == threat_df[i].source_lat - threat_df[j].source_lat
                dlon == threat_df[i].source_lon - threat_df[j].source_lon
            IN  dlat * dlat + dlon * dlon <= eps * eps
        clusters == Dbscan([i \in 1..n |-> {j \in 1..n : Near(i, j)}],
                           ZoneMinSamples)
        ids == {clusters[i] : i \in 1..n} \ {-1}
        Zone(cluster_id) ==
            LET members == {i \in 1..n : clusters[i] = cluster_id}
                count == Cardinality(members)
            IN  [id |-> <<"ZONE", cluster_id>>,
                 center_lat |->
                     SumOf([i \in 1..n |-> IF i \in members
                                           THEN threat_df[i].source_lat ELSE 0])
                     \div count,
                 center_lon |->
                     SumOf([i \in 1..n |-> IF i \in members
                                           THEN threat_df[i].source_lon ELSE 0])
                     \div count,
                 radius |-> ZoneRadiusKm,
                 severity |-> ZoneSeverity(
                     SumOf([i \in 1..n |-> IF i \in members
                                           THEN SeverityScore(threat_df[i].severity)
                                           ELSE 0]),
                     count),
                 threat_count |-> count,
                 dominant_threat |-> DominantThreat(threat_df, members)]
    IN  IF n < ZoneMinEvents THEN <<>>
        ELSE [c \in 1..Cardinality(ids) |-> Zone(c - 1)]

-----------------------------------------------------------------------------
(* Communication graph *)

LinkQuality(distance) ==
    IF distance < ExcellentKm THEN "EXCELLENT"
    ELSE IF distance < GoodKm THEN "GOOD"
    ELSE "POOR"

\* Pairing every satellite with every other one, in both orders
EveryOther(i, n) == (1..n) \ {i}

\* the j of range(i + 1, len(sat_ids))
PairPartners(i, n) == (i + 1)..n

generate_communication_paths(sat_positions) ==
    LET current == SelectSeq(sat_positions, LAMBDA item : item.history # <<>>)
        n == Len(current)
        Latest(i) == current[i].history[Len(current[i].history)]
        Path(i, j) ==
            LET pos1 == Latest(i)
                pos2 == Latest(j)
                distance == calculate_3d_distance(pos1, pos2)
            IN  IF distance < CommRangeKm
                THEN <<[id |-> <<"LINK", current[i].sat_id, current[j].sat_id>>,
                        source_id |-> current[i].sat_id,
                        target_id |-> current[j].sat_id,
                        source_lat |-> pos1.latitude, source_lon |-> pos1.longitude,
                        target_lat |-> pos2.latitude, target_lon |-> pos2.longitude,
                        distance |-> distance,
                        quality |-> LinkQuality(distance),
                        active |-> TRUE]>>
                ELSE <<>>
    IN  Concat([i \in 1..n |->
                   Concat([j \in 1..n |->
                              IF j \in PairPartners(i, n) THEN Path(i, j) ELSE <<>>])])

-----------------------------------------------------------------------------
(* Store *)

\* A Store that evicts the newest sample instead of the oldest
record_position_keeping_oldest(sat_positions, position) ==
    LET history == Append(HistoryOf(sat_positions, position.satellite_id), position)
    IN  Put(sat_positions, position.satellite_id,
            IF Len(history) > MaxPositions THEN SubSeq(history, 1, MaxPositions)
            ELSE history)

\* update_satellite_position: the dict after the call
record_position(sat_positions, position) ==
    LET history == Append(HistoryOf(sat_positions, position.satellite_id), position)
    IN  Put(sat_positions, position.satellite_id,
            IF Len(history) > MaxPositions THEN LastN(history, MaxPositions)
            ELSE history)

\* An event history that evicts the newest event instead of the oldest
add_threat_event_keeping_oldest(events, threat) ==
    LET longer == Append(events, threat)
    IN  IF Len(longer) > MaxThreatEvents THEN SubSeq(longer, 1, MaxThreatEvents)
        ELSE longer

\* add_threat_event: the list after the call
add_threat_event(events, threat) ==
    LET longer == Append(events, threat)
    IN  IF Len(longer) > MaxThreatEvents THEN LastN(longer, MaxThreatEvents)
        ELSE longer

RECURSIVE add_threat_events(_, _)
add_threat_events(events, threats) ==
    IF threats = <<>> THEN events
    ELSE add_threat_events(add_threat_event(events, Head(threats)), Tail(threats))

get_recent_threats(events, time, hours) ==
    LET cutoff_time == time - hours * SecondsPerHour * TicksPerSecond
    IN  SelectSeq(events, LAMBDA t : t.timestamp >= cutoff_time)

get_threat_statistics(sat_positions, events, time) ==
    LET recent_threats == get_recent_threats(events, time, DefaultHours)
        Severe(sev) == Cardinality({i \in DOMAIN recent_threats :
                                       recent_threats[i].severity = sev})
        kinds == {recent_threats[i].threat_type : i \in DOMAIN recent_threats}
    IN  [total_threats_24h |-> Len(recent_threats),
         critical_threats |-> Severe("CRITICAL"),
         high_threats |-> Severe("HIGH"),
         medium_threats |-> Severe("MEDIUM"),
         low_threats |-> Severe("LOW"),
         threat_by_type |->
             [k \in kinds |-> Cardinality({i \in DOMAIN recent_threats :
                                              recent_threats[i].threat_type = k})],
         active_satellites |-> Len(sat_positions),
         threat_zones |-> Len(generate_threat_zones(events)),
         communication_links |-> Len(generate_communication_paths(sat_positions))]

-----------------------------------------------------------------------------
(* Inputs *)

Place(lat, lon, alt) == [latitude |-> lat, longitude |-> lon, altitude |-> alt]

PlaceA == Place(0, 0, 500)
PlaceB == Place(0, 5, 500)       \* 0.5 degrees east of A: about 60 km
PlaceC == Place(0, 0, 550)       \* 50 km above A
PlaceD == Place(0, 60, 500)      \* about 720 km from A
PlaceE == Place(0, 120, 500)     \* about 1440 km from A
PlaceF == Place(0, 200, 500)     \* about 2390 km from A

Speed == [cruise |-> 75, fast |-> 90]      \* 7.5 km/s and 9.0 km/s

SatellitePosition(sat_id, place, velocity, timestamp) ==
    [satellite_id |-> sat_id, latitude |-> place.latitude,
     longitude |-> place.longitude, altitude |-> place.altitude,
     velocity |-> velocity, timestamp |-> timestamp]

\* n samples of one satellite, one a minute from time t0 on: at `place` and
\* at cruise speed, but fast at the indices in `fast` and at `elsewhere` at
\* the indices in `away`
Series(sat_id, n, place, fast, away, elsewhere, t0) ==
    [i \in 1..n |->
        SatellitePosition(sat_id, IF i \in away THEN elsewhere ELSE place,
                          IF i \in fast THEN Speed.fast ELSE Speed.cruise,
                          t0 + i * SleepMaxSeconds * TicksPerSecond)]

SatIds == {1, 2, 3, 7}

WebSockets == {"ws1", "ws2"}

Handlers == {"post1", "post2"}

Generator == "sim"

Coroutines == Handlers \cup {Generator}

-----------------------------------------------------------------------------
(* ConnectionManager.broadcast, as run by a handler or by the generator.    *)
(* A coroutine runs without interruption up to its next await that          *)
(* suspends: here, connection.send_text.                                    *)

NoConnection == "none"

NoBroadcast == [who |-> "nobody", msg |-> <<>>, start |-> <<>>, sent |-> {},
                failed |-> {}, disturbed |-> FALSE]

\* A coroutine: queue holds the messages still to broadcast, the first being
\* broadcast now; idx counts the connections the for loop has taken; conn is
\* the connection whose send_text is awaited.  start, sent, failed and
\* disturbed are history of the broadcast call in progress: the connections
\* when it started, those sent to, those whose send raised, and whether some
\* other coroutine changed active_connections meanwhile.
Idle ==
    [pc |-> "idle", queue |-> <<>>, idx |-> 0, conn |-> NoConnection,
     start |-> <<>>, sent |-> {}, failed |-> {}, disturbed |-> FALSE]

\* The for loop of broadcast takes the next connection: the list iterator
\* yields element idx (counting from 0) of the list as it is now.
IteratorHasNext(task, conns) == task.idx < Len(conns)

\* Runs coroutine `who` on from the top of the for loop up to its next
\* send_text, through the end of this broadcast call and the start of the
\* next ones: the coroutine, and the last broadcast call that returned.
RECURSIVE RunBroadcast(_, _, _, _)
RunBroadcast(who, task, conns, last) ==
    IF task.queue = <<>> THEN [task |-> Idle, last |-> last]
    ELSE IF IteratorHasNext(task, conns)
    THEN [task |-> [task EXCEPT !.pc = "sending", !.conn = conns[task.idx + 1],
                                !.idx = task.idx + 1],
          last |-> last]
    ELSE RunBroadcast(who,
                      [task EXCEPT !.queue = Tail(task.queue), !.idx = 0,
                                   !.conn = NoConnection, !.start = conns,
                                   !.sent = {}, !.failed = {},
                                   !.disturbed = FALSE],
                      conns,
                      [who |-> who, msg |-> Head(task.queue),
                       start |-> task.start, sent |-> task.sent,
                       failed |-> task.failed, disturbed |-> task.disturbed])

\* `for threat in new_threats: await manager.broadcast(...)`
StartBroadcasts(who, msgs, conns, last) ==
    RunBroadcast(who, [Idle EXCEPT !.queue = msgs, !.start = conns], conns, last)

\* The other coroutines, told that active_connections changed under them
Disturb(ts, who) ==
    [t \in DOMAIN ts |->
        IF t # who /\ ts[t].pc = "sending"
        THEN [ts[t] EXCEPT !.disturbed = TRUE] ELSE ts[t]]

-----------------------------------------------------------------------------
(* Engine operations, as a caller of the ThreatAnalyzer object sees them *)

Returned(op, arg, value) == [op |-> op, arg |-> arg, value |-> value]

\* update_satellite_position(position)
RecordPosition(position) ==
    /\ satellite_positions' = record_position(satellite_positions, position)
    /\ recorded' = [recorded EXCEPT ![position.satellite_id] = Append(@, position)]
    /\ posts' = posts + 1
    /\ result' = Returned("record_position", position, <<>>)
    /\ UNCHANGED <<threat_events, active_connections, ws_state, peer_closed,
                   tasks, now, appended, broadcasts, sims>>

\* add_threat_event(threat)
RecordEvent(threat) ==
    /\ threat_events' = add_threat_event(threat_events, threat)
    /\ appended' = Append(appended, threat)
    /\ sims' = sims + 1
    /\ result' = Returned("record_event", threat, <<>>)
    /\ UNCHANGED <<satellite_positions, active_connections, ws_state,
                   peer_closed, tasks, now, recorded, broadcasts, posts>>

\* An analyze that records what it detects
AnalyzeAndRecord(positions) ==
    LET threats == analyze_satellite_anomalies(satellite_positions, positions)
    IN  /\ result' = Returned("analyze", positions, threats)
        /\ threat_events' = add_threat_events(threat_events, threats)
        /\ appended' = appended \o threats
        /\ UNCHANGED <<satellite_positions, active_connections, ws_state,
                       peer_closed, tasks, now, recorded, broadcasts, posts, sims>>

\* analyze_satellite_anomalies(positions)
Analyze(positions) ==
    LET threats == analyze_satellite_anomalies(satellite_positions, positions)
    IN  /\ result' = Returned("analyze", positions, threats)
        /\ UNCHANGED <<satellite_positions, threat_events, active_connections,
                       ws_state, peer_closed, tasks, now, recorded, appended,
                       broadcasts, posts, sims>>

\* generate_threat_zones(), and GET /api/threat-zones
ThreatZones ==
    /\ result' = Returned("threat_zones", <<>>, generate_threat_zones(threat_events))
    /\ UNCHANGED <<satellite_positions, threat_events, active_connections,
                   ws_state, peer_closed, tasks, now, recorded, appended,
                   broadcasts, posts, sims>>

\* generate_communication_paths(), and GET /api/communication-paths
CommunicationPaths ==
    /\ result' = Returned("communication_paths", <<>>,
                          generate_communication_paths(satellite_positions))
    /\ UNCHANGED <<satellite_positions, threat_events, active_connections,
                   ws_state, peer_closed, tasks, now, recorded, appended,
                   broadcasts, posts, sims>>

\* get_recent_threats(hours), and GET /api/threats
RecentEvents(hours) ==
    /\ result' = Returned("recent_events", hours,
                          get_recent_threats(threat_events, now, hours))
    /\ UNCHANGED <<satellite_positions, threat_events, active_connections,
                   ws_state, peer_closed, tasks, now, recorded, appended,
                   broadcasts, posts, sims>>

\* get_threat_statistics(), and GET /api/threat-stats
Statistics ==
    /\ result' = Returned("statistics", <<>>,
                          get_threat_statistics(satellite_positions, threat_events, now))
    /\ UNCHANGED <<satellite_positions, threat_events, active_connections,
                   ws_state, peer_closed, tasks, now, recorded, appended,
                   broadcasts, posts, sims>>

ReadOps == {"analyze", "threat_zones", "communication_paths", "recent_events",
            "statistics"}

-----------------------------------------------------------------------------
(* The boundary: POST /api/satellite-position, the generator, WebSockets *)

Ids(threats) == [i \in 1..Len(threats) |-> threats[i].id]

\* A handler that analyses the Store before it records the sample
PostPositionDetectFirst(who, position) ==
    LET new_threats == analyze_satellite_anomalies(satellite_positions, <<position>>)
        run == StartBroadcasts(who, Ids(new_threats), active_connections, broadcasts)
    IN  /\ tasks[who].pc = "idle"
        /\ satellite_positions' = record_position(satellite_positions, position)
        /\ threat_events' = add_threat_events(threat_events, new_threats)
        /\ tasks' = [tasks EXCEPT ![who] = run.task]
        /\ broadcasts' = run.last
        /\ recorded' = [recorded EXCEPT ![position.satellite_id] = Append(@, position)]
        /\ appended' = appended \o new_threats
        /\ posts' = posts + 1
        /\ result' = Returned("post", position, new_threats)
        /\ UNCHANGED <<active_connections, ws_state, peer_closed, now, sims>>

\* update_satellite_position(position) of threat_api, run by coroutine `who`
\* up to its first send_text
PostPosition(who, position) ==
    LET positions == record_position(satellite_positions, position)
        new_threats == analyze_satellite_anomalies(positions, <<position>>)
        run == StartBroadcasts(who, Ids(new_threats), active_connections, broadcasts)
    IN  /\ tasks[who].pc = "idle"
        /\ satellite_positions' = positions
        /\ threat_events' = add_threat_events(threat_events, new_threats)
        /\ tasks' = [tasks EXCEPT ![who] = run.task]
        /\ broadcasts' = run.last
        /\ recorded' = [recorded EXCEPT ![position.satellite_id] = Append(@, position)]
        /\ appended' = appended \o new_threats
        /\ posts' = posts + 1
        /\ result' = Returned("post", position, new_threats)
        /\ UNCHANGED <<active_connections, ws_state, peer_closed, now, sims>>

\* What random draws for one simulated event
SimChoices ==
    {[source |-> Place(0, 0, 0), target |-> Place(0, 5, 0),
      threat_type |-> "DEBRIS_FIELD", severity |-> "LOW", satellite_id |-> 3,
      described |-> "communication_loss"],
     [source |-> Place(450, -900, 0), target |-> Place(-300, 1200, 0),
      threat_type |-> "COMMUNICATION_LOSS", severity |-> "HIGH", satellite_id |-> 5,
      described |-> "debris_field"]}

SimulatedEvent(time, choice) ==
    [id |-> <<"SIM", EpochSeconds(time)>>, timestamp |-> time,
     source_lat |-> choice.source.latitude, source_lon |-> choice.source.longitude,
     target_lat |-> choice.target.latitude, target_lon |-> choice.target.longitude,
     threat_type |-> choice.threat_type, severity |-> choice.severity,
     satellite_id |-> choice.satellite_id,
     description |-> <<"Simulated event", choice.described>>]

\* One round of generate_simulated_threats: the sleep ends `seconds` later,
\* the event is appended, and the broadcast runs up to its first send_text
SimulatedThreat(seconds, choice) ==
    LET time == now + seconds * TicksPerSecond
        threat == SimulatedEvent(time, choice)
        run == StartBroadcasts(Generator, <<threat.id>>, active_connections, broadcasts)
    IN  /\ tasks[Generator].pc = "idle"
        /\ now' = time
        /\ threat_events' = add_threat_event(threat_events, threat)
        /\ appended' = Append(appended, threat)
        /\ tasks' = [tasks EXCEPT ![Generator] = run.task]
        /\ broadcasts' = run.last
        /\ sims' = sims + 1
        /\ result' = Returned("simulated", threat, <<>>)
        /\ UNCHANGED <<satellite_positions, active_connections, ws_state,
                       peer_closed, recorded, posts>>

\* The send_text awaited by `who` returns: the loop goes on
SendSucceeds(who) ==
    LET task == tasks[who]
        run == RunBroadcast(who, [task EXCEPT !.sent = @ \cup {task.conn},
                                              !.conn = NoConnection],
                            active_connections, broadcasts)
    IN  /\ task.pc = "sending"
        /\ task.conn \notin peer_closed
        /\ tasks' = [tasks EXCEPT ![who] = run.task]
        /\ broadcasts' = run.last
        /\ UNCHANGED <<satellite_positions, threat_events, active_connections,
                       ws_state, peer_closed, now, result, recorded, appended,
                       posts, sims>>

\* The send_text awaited by `who` raises, and the except clause removes the
\* connection; the loop goes on over the list as it now is
SendFails(who) ==
    LET task == tasks[who]
        conns == RemoveFirst(active_connections, task.conn)
        run == RunBroadcast(who, [task EXCEPT !.failed = @ \cup {task.conn},
                                              !.conn = NoConnection],
                            conns, broadcasts)
    IN  /\ task.pc = "sending"
        /\ task.conn \in peer_closed
        /\ task.conn \in Range(active_connections)
        /\ active_connections' = conns
        /\ tasks' = Disturb([tasks EXCEPT ![who] = run.task], who)
        /\ broadcasts' = run.last
        /\ UNCHANGED <<satellite_positions, threat_events, ws_state, peer_closed,
                       now, result, recorded, appended, posts, sims>>

\* The send_text awaited by `who` raises, and the connection is no longer in
\* the list: list.remove raises ValueError inside the except clause, out of
\* broadcast and out of the coroutine
SendFailsRemoved(who) ==
    LET task == tasks[who]
    IN  /\ task.pc = "sending"
        /\ task.conn \in peer_closed
        /\ task.conn \notin Range(active_connections)
        /\ tasks' = [tasks EXCEPT ![who] = [task EXCEPT !.pc = "crashed"]]
        /\ UNCHANGED <<satellite_positions, threat_events, active_connections,
                       ws_state, peer_closed, now, result, recorded, appended,
                       broadcasts, posts, sims>>

\* websocket_endpoint up to its first send_text: manager.connect(websocket)
Connect(ws) ==
    /\ ws_state[ws] = "new"
    /\ ws_state' = [ws_state EXCEPT ![ws] = "open"]
    /\ active_connections' = Append(active_connections, ws)
    /\ tasks' = Disturb(tasks, "endpoint")
    /\ UNCHANGED <<satellite_positions, threat_events, peer_closed, now, result,
                   recorded, appended, broadcasts, posts, sims>>

\* The client of an open WebSocket goes away
PeerCloses(ws) ==
    /\ ws_state[ws] = "open"
    /\ ws \notin peer_closed
    /\ peer_closed' = peer_closed \cup {ws}
    /\ UNCHANGED <<satellite_positions, threat_events, active_connections,
                   ws_state, tasks, now, result, recorded, appended, broadcasts,
                   posts, sims>>

\* websocket_endpoint sends (the initial data, or a statistics update) to a
\* client that is there: the endpoint goes back to sleep, nothing has changed
EndpointSends(ws) ==
    /\ ws_state[ws] = "open"
    /\ ws \notin peer_closed
    /\ UNCHANGED vars

\* websocket_endpoint sends to a client that has gone: WebSocketDisconnect,
\* and manager.disconnect(websocket) removes the connection
EndpointDisconnects(ws) ==
    /\ ws_state[ws] = "open"
    /\ ws \in peer_closed
    /\ ws \in Range(active_connections)
    /\ active_connections' = RemoveFirst(active_connections, ws)
    /\ ws_state' = [ws_state EXCEPT ![ws] = "closed"]
    /\ tasks' = Disturb(tasks, "endpoint")
    /\ UNCHANGED <<satellite_positions, threat_events, peer_closed, now, result,
                   recorded, appended, broadcasts, posts, sims>>

\* The same, when a broadcast has already removed the connection: list.remove
\* raises ValueError in manager.disconnect
EndpointDisconnectFails(ws) ==
    /\ ws_state[ws] = "open"
    /\ ws \in peer_closed
    /\ ws \notin Range(active_connections)
    /\ ws_state' = [ws_state EXCEPT ![ws] = "error"]
    /\ UNCHANGED <<satellite_positions, threat_events, active_connections,
                   peer_closed, tasks, now, result, recorded, appended,
                   broadcasts, posts, sims>>

-----------------------------------------------------------------------------
(* Bounds *)

MaxPosts == 2          \* position submissions (Spec)
MaxSims == 1           \* simulated events (Spec)
MaxRecords == 105      \* samples recorded per satellite (SpecStore)
SeedEvents == 998      \* events already in the history (SpecEvents)
MaxEventPosts == 1     \* position submissions (SpecEvents)
MaxEventSims == 2      \* simulated events (SpecEvents)
MaxCalls == 1          \* record_position and record_event calls (SpecEngine)

-----------------------------------------------------------------------------
(* Initial states *)

\* The clock starts two days after the epoch of the model
StartTime == 2 * DefaultHours * SecondsPerHour * TicksPerSecond

\* Samples from a quarter of an hour before the start on, and samples two
\* days old
Fresh == StartTime - 15 * SleepMaxSeconds * TicksPerSecond
Old == StartTime - 2 * DefaultHours * SecondsPerHour * TicksPerSecond

\* The dict holding the given histories, in the order given
RECURSIVE StoreOf(_)
StoreOf(histories) ==
    IF histories = <<>> THEN <<>>
    ELSE IF Head(histories) = <<>> THEN StoreOf(Tail(histories))
    ELSE <<[sat_id |-> Head(histories)[1].satellite_id,
            history |-> Head(histories)]>> \o StoreOf(Tail(histories))

RecordedIn(positions) == [sat \in SatIds |-> HistoryOf(positions, sat)]

\* Satellites 1 and 2 with ten samples each, 0.5 degrees apart
PairStore ==
    StoreOf(<<Series(1, MinHistory, PlaceA, {}, {}, PlaceA, Fresh),
              Series(2, MinHistory, PlaceB, {}, {}, PlaceB, Old)>>)

\* The history the generator leaves after n rounds, one every ten seconds
SimulatedHistory(n) ==
    [i \in 1..n |->
        SimulatedEvent(i * SleepMinSeconds * TicksPerSecond,
                       CHOOSE c \in SimChoices :
                           (c.severity = "LOW") <=> (i % 2 = 0))]

InitWith(positions, events) ==
    /\ satellite_positions = positions
    /\ threat_events = events
    /\ active_connections = <<>>
    /\ ws_state = [ws \in WebSockets |-> "new"]
    /\ peer_closed = {}
    /\ tasks = [who \in Coroutines |-> Idle]
    /\ now = StartTime
    /\ result = Returned("init", <<>>, <<>>)
    /\ recorded = RecordedIn(positions)
    /\ appended = events
    /\ broadcasts = NoBroadcast
    /\ posts = 0
    /\ sims = 0

-----------------------------------------------------------------------------
(* Spec: the service.  It starts empty, or with one satellite one sample    *)
(* short of being analysed; every submission is a fast sample of that       *)
(* satellite.  The GET endpoints only read the engine (they are the read    *)
(* operations of SpecEngine) and are left out.                              *)

\* Satellite 1 with nine samples at cruise speed
SoloStore == StoreOf(<<Series(1, MinHistory - 1, PlaceA, {}, {}, PlaceA, Fresh)>>)

ServiceInputs(time) == {SatellitePosition(1, PlaceA, Speed.fast, time)}

ServiceChoice == CHOOSE choice \in SimChoices : choice.severity = "HIGH"

PostInputs(time) ==
    {SatellitePosition(1, PlaceA, Speed.fast, time),
     SatellitePosition(1, PlaceD, Speed.cruise, time),
     SatellitePosition(7, PlaceC, Speed.cruise, time)}

\* Requests are served by the first handler coroutine that is free
FreeHandler(who) ==
    /\ tasks[who].pc = "idle"
    /\ who = "post2" => tasks["post1"].pc # "idle"

Init == \E positions \in {<<>>, SoloStore} : InitWith(positions, <<>>)

Post ==
    \E who \in Handlers, position \in ServiceInputs(now) :
        posts < MaxPosts /\ FreeHandler(who) /\ PostPosition(who, position)

Simulate ==
    sims < MaxSims /\ SimulatedThreat(SleepMinSeconds, ServiceChoice)

Send ==
    \E who \in Coroutines :
        SendSucceeds(who) \/ SendFails(who) \/ SendFailsRemoved(who)

Socket ==
    \E ws \in WebSockets :
        \/ Connect(ws)
        \/ PeerCloses(ws)
        \/ EndpointSends(ws)
        \/ EndpointDisconnects(ws)
        \/ EndpointDisconnectFails(ws)

Next == Post \/ Simulate \/ Send \/ Socket

Spec == Init /\ [][Next]_vars

-----------------------------------------------------------------------------
(* SpecStore: update_satellite_position alone, from the empty Store *)

StoreSats == {1, 2}

\* The k-th sample recorded for a satellite: no two are equal
SampleNo(sat_id, k) ==
    SatellitePosition(sat_id,
                      IF k % 3 = 0 THEN PlaceA ELSE IF k % 3 = 1 THEN PlaceB ELSE PlaceD,
                      IF k % 2 = 0 THEN Speed.cruise ELSE Speed.fast,
                      StartTime + k * TicksPerSecond)

InitStore == InitWith(<<>>, <<>>)

NextStore ==
    \E sat_id \in StoreSats :
        /\ Len(recorded[sat_id]) < MaxRecords
        /\ RecordPosition(SampleNo(sat_id, Len(recorded[sat_id]) + 1))

SpecStore == InitStore /\ [][NextStore]_vars

-----------------------------------------------------------------------------
(* SpecEvents: the two callers of add_threat_event, from an empty history   *)
(* and from one that the generator has nearly filled.  No WebSocket is      *)
(* connected.                                                               *)

InitEvents ==
    \E events \in {<<>>, SimulatedHistory(SeedEvents)} : InitWith(SoloStore, events)

PostEvents ==
    \E position \in PostInputs(now) :
        posts < MaxEventPosts /\ PostPosition("post1", position)

SimulateEvents ==
    \E choice \in SimChoices :
        sims < MaxEventSims /\ SimulatedThreat(SleepMinSeconds, choice)

NextEvents == PostEvents \/ SimulateEvents

SpecEvents == InitEvents /\ [][NextEvents]_vars

-----------------------------------------------------------------------------
(* SpecEngine: the operations of the engine called one at a time, from      *)
(* Stores that earlier traffic has left.                                    *)

\* One satellite per entry: the samples it has, oldest first
EngineStores ==
    {<<>>,
     \* satellites 1 and 2 seen once each, 0.5 degrees apart
     StoreOf(<<Series(1, 1, PlaceA, {}, {}, PlaceA, Fresh),
               Series(2, 1, PlaceB, {}, {}, PlaceB, Fresh)>>),
     \* satellite 1 with nine samples, the last one fast
     StoreOf(<<Series(1, MinHistory - 1, PlaceA, {MinHistory - 1}, {}, PlaceA, Fresh)>>),
     \* satellite 7 with twelve samples, the sixth fast; satellite 1 far away
     StoreOf(<<Series(7, 12, PlaceA, {6}, {}, PlaceA, Fresh),
               Series(1, MinHistory, PlaceD, {}, {}, PlaceD, Fresh)>>),
     PairStore,
     \* satellite 2 with ten samples, the fourth of them elsewhere
     StoreOf(<<Series(2, MinHistory, PlaceB, {}, {4}, PlaceE, Fresh)>>),
     \* four satellites, from 60 km to 2390 km from each other
     StoreOf(<<Series(1, 1, PlaceA, {}, {}, PlaceA, Fresh),
               Series(2, 1, PlaceB, {}, {}, PlaceB, Fresh),
               Series(3, 1, PlaceD, {}, {}, PlaceD, Fresh),
               Series(7, 1, PlaceF, {}, {}, PlaceF, Fresh)>>),
     \* two satellites close to each other and one out of range
     StoreOf(<<Series(7, 1, PlaceF, {}, {}, PlaceF, Fresh),
               Series(1, 1, PlaceA, {}, {}, PlaceA, Fresh),
               Series(2, 1, PlaceB, {}, {}, PlaceB, Fresh)>>)}

\* Six events of the generator, one a minute up to the start
EngineEvents ==
    [i \in 1..(2 * ZoneMinEvents) |->
        SimulatedEvent(StartTime - (2 * ZoneMinEvents - i) * SleepMaxSeconds * TicksPerSecond,
                       CHOOSE c \in SimChoices : (c.severity = "LOW") <=> (i % 2 = 0))]

\* The batch the position handler passes: the sample it has just recorded
Batches(sat_positions) ==
    {<<item.history[Len(item.history)]>> : item \in Range(sat_positions)}

EngineInputs(time) ==
    {SatellitePosition(1, PlaceC, Speed.fast, time),
     SatellitePosition(7, PlaceE, Speed.cruise, time)}

InitEngine ==
    \E positions \in EngineStores, events \in {<<>>, EngineEvents} :
        InitWith(positions, events)

Mutate ==
    /\ posts + sims < MaxCalls
    /\ \/ \E position \in EngineInputs(now) : RecordPosition(position)
       \/ RecordEvent(SimulatedEvent(now, ServiceChoice))

Read ==
    \/ \E positions \in Batches(satellite_positions) : Analyze(positions)
    \/ ThreatZones
    \/ CommunicationPaths
    \/ \E hours \in {0, DefaultHours} : RecentEvents(hours)
    \/ Statistics

NextEngine == Mutate \/ Read

SpecEngine == InitEngine /\ [][NextEngine]_vars

-----------------------------------------------------------------------------
(* SpecWriters: the writers of the Store, two position handlers and the     *)
(* generator, suspended in their broadcasts to one healthy WebSocket and    *)
(* resumed in any order.  It starts with the Store of Spec, or with both    *)
(* histories one short of their caps.                                       *)

\* Satellite 1 with 99 samples at cruise speed
FullStore ==
    StoreOf(<<Series(1, MaxPositions - 1, PlaceA, {}, {}, PlaceA,
                     StartTime - MaxPositions * SleepMaxSeconds * TicksPerSecond)>>)

InitWriters ==
    \/ InitWith(SoloStore, <<>>)
    \/ InitWith(FullStore, SimulatedHistory(SeedEvents))

Resume == \E who \in Coroutines : SendSucceeds(who)

NextWriters == Post \/ Simulate \/ Resume \/ Connect("ws1")

SpecWriters == InitWriters /\ [][NextWriters]_vars

-----------------------------------------------------------------------------
(* Properties *)

\* The last k elements of s are the elements of h, in order
IsLast(h, s, k) ==
    /\ Len(h) = k
    /\ \A i \in 1..k : h[i] = s[Len(s) - k + i]

Min(a, b) == IF a < b THEN a ELSE b

\* C1: for every satellite the stored history is the last min(n, 100) of the
\* n samples recorded for it, in recording order; so it never holds more
\* than 100 samples, and after 105 records it holds the 100 most recent.
HistoryIsLastRecorded ==
    \A sat \in SatIds :
        LET history == HistoryOf(satellite_positions, sat)
        IN  /\ Len(history) <= MaxPositions
            /\ IsLast(history, recorded[sat],
                      Min(Len(recorded[sat]), MaxPositions))

\* 105 samples recorded for one satellite, the 5 oldest evicted
OldestSamplesEvicted ==
    \E sat \in SatIds :
        /\ Len(recorded[sat]) = MaxPositions + 5
        /\ Len(HistoryOf(satellite_positions, sat)) = MaxPositions
        /\ HistoryOf(satellite_positions, sat)[1] = recorded[sat][6]

\* C2: the event history is the last min(m, 1000) of the m events appended,
\* by the position handler or by the generator, in insertion order; so it
\* never holds more than 1000 events.
EventsAreLastAppended ==
    /\ Len(threat_events) <= MaxThreatEvents
    /\ IsLast(threat_events, appended, Min(Len(appended), MaxThreatEvents))

\* More than 1000 events appended, by both callers, the oldest evicted
OldestEventsEvicted ==
    /\ Len(appended) > MaxThreatEvents
    /\ Len(threat_events) = MaxThreatEvents
    /\ posts > 0
    /\ sims > 0
    /\ threat_events[1] # appended[1]

\* What the last call of analyze was given and what it returned
Batch == {result.arg[j].satellite_id : j \in DOMAIN result.arg}

LatestOf(sat) == HistoryOf(satellite_positions, sat)[Len(HistoryOf(satellite_positions, sat))]

ReturnedEvents(kind, sat) ==
    SelectSeq(result.value,
              LAMBDA e : e.threat_type = kind /\ e.satellite_id = sat)

\* Event e has its source and its target at sample p, and the time of p
IsAt(e, p) ==
    /\ e.timestamp = p.timestamp
    /\ e.source_lat = p.latitude /\ e.source_lon = p.longitude
    /\ e.target_lat = p.latitude /\ e.target_lon = p.longitude

\* C3: every event analyze returns originates from a satellite of a sample
\* of the batch; none is returned for a satellite that is only in the
\* Store.
AnalyzeOnlyBatchSatellites ==
    result.op = "analyze" =>
        \A i \in DOMAIN result.value : result.value[i].satellite_id \in Batch

\* C4: when satellites A and B have at least one sample each and their
\* latest samples are less than 100 km apart, analyze triggered for A
\* returns a CRITICAL PROXIMITY_THREAT of A, from A's latest coordinate to
\* B's, naming B.
ProximityForEverySample ==
    result.op = "analyze" =>
        \A a \in Batch, b \in Keys(satellite_positions) \ Batch :
            calculate_3d_distance(LatestOf(a), LatestOf(b)) < ProximityKm =>
                \E i \in DOMAIN result.value :
                    LET e == result.value[i]
                    IN  /\ e.threat_type = "PROXIMITY_THREAT"
                        /\ e.severity = "CRITICAL"
                        /\ e.satellite_id = a
                        /\ e.source_lat = LatestOf(a).latitude
                        /\ e.source_lon = LatestOf(a).longitude
                        /\ e.target_lat = LatestOf(b).latitude
                        /\ e.target_lon = LatestOf(b).longitude
                        /\ e.description[2] = b

\* Satellite 7 has 12 samples at 7.5 km/s, but the 6th at 9.0 km/s
SpikeSeeded ==
    LET history == HistoryOf(satellite_positions, 7)
    IN  /\ Len(history) = 12
        /\ \A i \in 1..12 :
               history[i].velocity = IF i = 6 THEN Speed.fast ELSE Speed.cruise

\* C5, as the spec states it: with the spike seeded, analyze returns exactly
\* one VELOCITY_ANOMALY for satellite 7, at the 6th sample.
SpikeFlaggedOnce ==
    result.op = "analyze" /\ SpikeSeeded =>
        LET events == ReturnedEvents("VELOCITY_ANOMALY", 7)
        IN  /\ Len(events) = 1
            /\ IsAt(events[1], HistoryOf(satellite_positions, 7)[6])

\* C5, as the code has it: with the spike seeded, analyze returns exactly
\* two VELOCITY_ANOMALY events for satellite 7, the first at the 6th sample
\* (the speed rises) and the second at the 7th (it falls back).
SpikeFlaggedTwice ==
    result.op = "analyze" /\ SpikeSeeded =>
        LET events == ReturnedEvents("VELOCITY_ANOMALY", 7)
        IN  /\ Len(events) = 2
            /\ IsAt(events[1], HistoryOf(satellite_positions, 7)[6])
            /\ IsAt(events[2], HistoryOf(satellite_positions, 7)[7])

\* analyze has run on the seeded spike and has returned velocity anomalies
SpikeAnalysed ==
    /\ result.op = "analyze"
    /\ SpikeSeeded
    /\ ReturnedEvents("VELOCITY_ANOMALY", 7) # <<>>

\* C6: for a satellite of the batch whose window (its last 50 samples) holds
\* at least 5 samples, analyze returns exactly one MEDIUM VELOCITY_ANOMALY
\* at each sample whose change of speed is more than 2 standard deviations
\* from the mean change; windows of 5 to 9 samples included.
VelocityFlagsFromFiveSamples ==
    result.op = "analyze" =>
        \A sat \in Batch :
            LET df == LastN(HistoryOf(satellite_positions, sat), WindowSize)
            IN  Len(df) >= MinVelocitySamples =>
                    \A i \in VelocityAnomalyRows(df) :
                        Len(SelectSeq(ReturnedEvents("VELOCITY_ANOMALY", sat),
                                      LAMBDA e : e.severity = "MEDIUM"
                                                 /\ IsAt(e, df[i]))) = 1

\* C7: the ids of the events in the event history are pairwise distinct,
\* whatever positions were submitted and whatever events were simulated.
EventIdsDistinct ==
    \A i, j \in DOMAIN threat_events :
        i # j => threat_events[i].id # threat_events[j].id

\* C8: analyze, threat_zones, communication_paths, recent_events and
\* statistics leave the position histories and the event history as they
\* were; so the zones and the paths last returned are those a second call
\* would return.
ReadsLeaveStore ==
    /\ [][result'.op \in ReadOps => store' = store]_vars
    /\ [](result.op = "threat_zones" =>
              result.value = generate_threat_zones(threat_events))
    /\ [](result.op = "communication_paths" =>
              result.value = generate_communication_paths(satellite_positions))

\* analyze has returned events, and they are not in the event history
DetectedNotRecorded ==
    /\ result.op = "analyze"
    /\ result.value # <<>>
    /\ satellite_positions # <<>>
    /\ \A i \in DOMAIN result.value :
           \A j \in DOMAIN threat_events : threat_events[j] # result.value[i]

\* The paths returned between satellites a and b, in either direction
PathsBetween(a, b) ==
    SelectSeq(result.value,
              LAMBDA path : {path.source_id, path.target_id} = {a, b})

\* C9: communication_paths returns one path for each pair of distinct
\* satellites whose latest samples are less than 2000 km apart and none for
\* any other pair; every path is active, and EXCELLENT below 500 km, GOOD
\* from 500 km to below 1000 km, POOR from 1000 km to below 2000 km.
PathsAreTheLinksInRange ==
    result.op = "communication_paths" =>
        /\ \A a, b \in Keys(satellite_positions) :
               a # b =>
                   Len(PathsBetween(a, b)) =
                       IF calculate_3d_distance(LatestOf(a), LatestOf(b)) < CommRangeKm
                       THEN 1 ELSE 0
        /\ \A i \in DOMAIN result.value :
               LET path == result.value[i]
                   distance == calculate_3d_distance(LatestOf(path.source_id),
                                                     LatestOf(path.target_id))
               IN  /\ path.source_id \in Keys(satellite_positions)
                   /\ path.target_id \in Keys(satellite_positions)
                   /\ path.source_id # path.target_id
                   /\ path.active
                   /\ path.distance = distance
                   /\ distance < ExcellentKm => path.quality = "EXCELLENT"
                   /\ ExcellentKm <= distance /\ distance < GoodKm =>
                          path.quality = "GOOD"
                   /\ GoodKm <= distance /\ distance < CommRangeKm =>
                          path.quality = "POOR"

\* Paths of the three qualities have been returned, and a pair out of range
\* has been left out
LinksOfEveryQuality ==
    /\ result.op = "communication_paths"
    /\ \E i, j, k \in DOMAIN result.value :
           /\ result.value[i].quality = "EXCELLENT"
           /\ result.value[j].quality = "GOOD"
           /\ result.value[k].quality = "POOR"
    /\ \E a, b \in Keys(satellite_positions) :
           a # b /\ PathsBetween(a, b) = <<>>

\* C10: a broadcast sends to every connection that was in
\* active_connections when it started and whose own send did not fail.
\* Stated for the broadcasts during which no other coroutine touched
\* active_connections.
BroadcastReachesTheOthers ==
    ~broadcasts.disturbed =>
        \A ws \in Range(broadcasts.start) \ broadcasts.failed :
            ws \in broadcasts.sent

\* C11: with two handlers and the generator suspended and resumed in any
\* order, every history is the last 100 of the samples recorded and the
\* event history the last 1000 of the events appended, so nothing is lost
\* but by eviction and the caps hold; and a handler records the sample,
\* analyses the Store that holds it, and appends the events returned.
WritersAreSerialized ==
    /\ [](\A sat \in SatIds :
              IsLast(HistoryOf(satellite_positions, sat), recorded[sat],
                     Min(Len(recorded[sat]), MaxPositions)))
    /\ [](IsLast(threat_events, appended, Min(Len(appended), MaxThreatEvents)))
    /\ [][posts' = posts + 1 =>
              /\ satellite_positions' =
                     record_position(satellite_positions, result'.arg)
              /\ result'.value =
                     analyze_satellite_anomalies(satellite_positions', <<result'.arg>>)
              /\ threat_events' = add_threat_events(threat_events, result'.value)]_vars

\* Both handlers and the generator are suspended in a broadcast, and both
\* caps have been passed
WritersInterleaved ==
    /\ \A who \in Coroutines : tasks[who].pc = "sending"
    /\ \E sat \in SatIds : Len(recorded[sat]) > MaxPositions
    /\ Len(appended) > MaxThreatEvents

\* C12: analyze returns no VELOCITY_ANOMALY for a satellite whose window
\* holds fewer than 5 samples and no TRAJECTORY_ANOMALY for one whose window
\* holds fewer than 10; and the detectors themselves, given the first k
\* samples of a history, return the empty sequence (a value, not an error)
\* for k below their minimum, k = 0 and k = 1 included.
DetectorsIdleBelowMinimum ==
    /\ result.op = "analyze" =>
           \A sat \in Keys(satellite_positions) :
               LET df == LastN(HistoryOf(satellite_positions, sat), WindowSize)
               IN  /\ Len(df) < MinVelocitySamples =>
                          ReturnedEvents("VELOCITY_ANOMALY", sat) = <<>>
                   /\ Len(df) < MinTrajectorySamples =>
                          ReturnedEvents("TRAJECTORY_ANOMALY", sat) = <<>>
    /\ \A sat \in Keys(satellite_positions) :
           LET history == HistoryOf(satellite_positions, sat)
           IN  \A k \in 0..Min(Len(history), MinTrajectorySamples - 1) :
                   LET df == SubSeq(history, 1, k)
                   IN  /\ k < MinVelocitySamples =>
                              detect_velocity_anomalies(df, sat) = <<>>
                       /\ detect_trajectory_anomalies(df, sat) = <<>>

\* analyze has run on a Store with a satellite seen once and a satellite
\* with 5 to 9 samples, and has returned nothing
ShortHistoriesAnalysed ==
    /\ result.op = "analyze"
    /\ result.value = <<>>
    /\ \E a, b \in Keys(satellite_positions) :
           /\ Len(HistoryOf(satellite_positions, a)) = 1
           /\ Len(HistoryOf(satellite_positions, b)) >= MinVelocitySamples
           /\ Len(HistoryOf(satellite_positions, b)) < MinTrajectorySamples

\* C13: manager.disconnect is never run for a connection that a broadcast
\* has already removed after a failed send: its list.remove always finds
\* the connection.
DisconnectFindsConnection ==
    \A ws \in WebSockets : ws_state[ws] # "error"

=============================================================================
